---- MODULE Spec2Model ----
(***************************************************************************)
(* Buttermaker theme: the incremental content-loading pipeline.            *)
(*                                                                         *)
(*   InfiniteScroll  (src/unnamed/part_002, the class at lines 280-649)    *)
(*   CategoryTabs    (src/src/js/modules/category-tabs.js)                 *)
(*                                                                         *)
(* JavaScript runs every handler to completion, so one action is one       *)
(* handler up to its next await that waits for the network, an image or a  *)
(* timer; the continuation after such an await is another action.          *)
(***************************************************************************)
EXTENDS Integers, Sequences, FiniteSets, TLC

(***************************************************************************)
(* Bounds of the model.                                                    *)
(***************************************************************************)
\* network requests the loader may issue in one run
MaxFetches == 2
\* content API requests the category filter may issue in one run
MaxTabFetches == 3

(***************************************************************************)
(* Documents served by the CMS.  A document is what the loader reads from  *)
(* it: the elements matched by each of the three card selectors, the       *)
(* link[rel="next"] and the #pagination-data script block.                 *)
(***************************************************************************)
\* how many elements the first card selector matches in a document
MatchCounts == {0, 1, 2}

\* how many elements each of the two fallback selectors matches
FallbackCounts == {0, 1}

NoLink == "none"

Links == {NoLink, "/page/2/", "/page/3/"}

Categories == {"poetry", "art"}

\* the posts arrays the content API can answer with (post ids, at most 12)
PostLists == {<<>>, <<1>>, <<2>>, <<1, 2>>, <<2, 1>>}

\* what await fetch(url) and await response.json() can produce: the request
\* rejects; or a response arrives with its ok flag, a body that parses as
\* JSON or not, and the posts array of the parsed body (empty when the body
\* has none, as every error body of the API)
TabResponses ==
  {r \in [rejects : BOOLEAN, ok : BOOLEAN, json : BOOLEAN, posts : PostLists] :
     /\ r.rejects => (~r.ok /\ ~r.json)
     /\ (~r.json \/ ~r.ok) => r.posts = <<>>}

PageNumbers == {0, 2}

TotalNumbers == {2}

\* the #pagination-data block: absent, not parseable as JSON, or an object
PaginationData ==
  {[valid |-> "absent", currentPage |-> 0, totalPages |-> 0, hasNext |-> FALSE],
   [valid |-> "malformed", currentPage |-> 0, totalPages |-> 0, hasNext |-> FALSE]}
  \cup [valid : {"ok"}, currentPage : PageNumbers, totalPages : TotalNumbers,
        hasNext : BOOLEAN]

NoPagination ==
  [valid |-> "absent", currentPage |-> 0, totalPages |-> 0, hasNext |-> FALSE]

Docs ==
  [articleLoop : MatchCounts, postFeed : FallbackCounts, masonry : FallbackCounts,
   next : Links, pag : PaginationData]

\* the page's own document, as far as the loader reads it
InitialDocs == [cards : MatchCounts, next : Links, pag : PaginationData]

VARIABLES
  scroll,         \* the InfiniteScroll instance: isLoading, hasMorePosts, nextDom, currentPage, totalPages
  btn,            \* #load-more-btn: disabled, classes, innerHTML, onclick
  calls,          \* loadMorePosts() invocations suspended at an await
  fetchCount,     \* network requests issued by the loader so far
  grid,           \* the cards of the feed container, in document order
  timers,         \* pending 650 ms unwrap timers, in firing order
  isMasonryGrid,  \* postFeed is the .masonry-grid
  appended,       \* history: the cards in the order the loader placed them
  last,           \* history: the loader handler that ran last and what it did
  pagRead,        \* history: the #pagination-data block readPaginationData() found last
  fetched,        \* history: the last document loaded with posts (0: the page's own) and its next link
  activeFilter,   \* CategoryTabs: the selected category key
  postCache,      \* CategoryTabs: category key -> posts of its last fetch
  initialCards,   \* CategoryTabs: the snapshot taken at page load
  tabCalls,       \* fetchPosts() invocations suspended at await fetch()
  apiCount,       \* content API requests issued so far, per category
  loadingIndicator, \* style.display of .masonry-loading
  lastTab,        \* history: the tab handler that ran last and what it did
  innerWidth,     \* window.innerWidth, which is also the width of the grid
  engine,         \* the MasonryGrid instance: columns, columnCount, gap, isLayouting
  mcards,         \* MasonryGrid.cards: height, inline left/top/width, positioned class
  gridHeight,     \* style.height of the grid, -1 while unset
  mtimers,        \* pending setTimeout callbacks of the engine: kind, card, ms left
  mpending,       \* events the engine still waits for: its images, window load
  lastM,          \* history: the engine handler that ran last and what it did
  isMobile,       \* ThePile.isMobile
  isTablet,       \* ThePile.isTablet
  pcards,         \* ThePile.cards: dataset.original*, inline transform and z-index, classes
  resizeTimer,    \* ms left of the pile's resize timer, -1 while none is pending
  ptimers,        \* pending auto put-down timers of touchstart: card, ms left
  hovered,        \* the card under the pointer, 0 if none
  focused,        \* the card that has the keyboard focus, 0 if none
  lastP,          \* history: the pile handler that ran last and what it did
  dom,            \* which anchors the document has: feed, button, grid, tabs
  listeners,      \* the event listeners the components have registered
  thrown,         \* the constructors and calls that ended in an exception
  booted          \* the components whose constructor has run

scrollVars ==
  <<scroll, btn, calls, fetchCount, timers, isMasonryGrid, appended, last, pagRead, fetched>>

tabVars ==
  <<activeFilter, postCache, initialCards, tabCalls, apiCount, loadingIndicator, lastTab>>

masonryVars == <<innerWidth, engine, mcards, gridHeight, mtimers, mpending, lastM>>

pileVars == <<isMobile, isTablet, pcards, resizeTimer, ptimers, hovered, focused, lastP>>

bootVars == <<dom, listeners, thrown, booted>>

vars ==
  <<scroll, btn, calls, fetchCount, grid, timers, isMasonryGrid, appended, last,
    pagRead, fetched, activeFilter, postCache, initialCards, tabCalls, apiCount, loadingIndicator, lastTab,
    innerWidth, engine, mcards, gridHeight, mtimers, mpending, lastM,
    isMobile, isTablet, pcards, resizeTimer, ptimers, hovered, focused, lastP,
    dom, listeners, thrown, booted>>

(***************************************************************************)
(* Cards.  batch 0 is the page as rendered by the server, batch n the      *)
(* n-th request of the loader; wrapper is the .new-posts-container the     *)
(* card currently sits in (0: a direct child of the feed); wordCount is    *)
(* the presence of its data-word-count attribute and inits the number of   *)
(* times BlogPostDisplay has set the card up (history).                    *)
(***************************************************************************)
Card(b, i, w) ==
  [kind |-> "card", batch |-> b, idx |-> i, wrapper |-> w, category |-> "",
   wordCount |-> FALSE, inits |-> 0]

CardId(c) == <<c.kind, c.category, c.batch, c.idx>>

CardIds(seq) == [i \in 1..Len(seq) |-> CardId(seq[i])]

(***************************************************************************)
(* The button.                                                             *)
(***************************************************************************)
updateButtonState(s, b) ==
  IF s.isLoading
  THEN [b EXCEPT !.disabled = TRUE,
                 !.classes = (@ \cup {"loading"}) \ {"no-more", "error"},
                 !.innerHTML = "Loading..."]
  ELSE IF ~s.hasMorePosts
  THEN [b EXCEPT !.disabled = TRUE,
                 !.classes = (@ \cup {"no-more"}) \ {"loading", "error"},
                 !.innerHTML = "No more posts"]
  ELSE [b EXCEPT !.disabled = FALSE,
                 !.classes = @ \ {"loading", "no-more", "error"},
                 !.innerHTML = "Load more posts"]

showError(b) ==
  [b EXCEPT !.classes = (@ \cup {"error"}) \ {"loading", "no-more"},
            !.innerHTML = "Failed to load posts. Try again?",
            !.disabled = FALSE,
            !.onclick = TRUE]

(***************************************************************************)
(* The pagination cursor.                                                  *)
(***************************************************************************)
\* data.x || 1
OrOne(n) == IF n = 0 THEN 1 ELSE n

readPaginationData(s, pag) ==
  IF pag.valid = "absent" THEN s
  ELSE IF pag.valid = "malformed" THEN [s EXCEPT !.hasMorePosts = FALSE]
  ELSE [s EXCEPT !.currentPage = OrOne(pag.currentPage),
                 !.totalPages = OrOne(pag.totalPages),
                 !.hasMorePosts = pag.hasNext]

\* what readPaginationData() got out of the block: nothing when the
\* document has no block, else whether it parsed and the hasNext it reports
blockRead(before, pag) ==
  IF pag.valid = "absent" THEN before
  ELSE [valid |-> pag.valid, hasNext |-> pag.valid = "ok" /\ pag.hasNext]

NothingRead == [valid |-> "absent", hasNext |-> FALSE]

checkForNextPage(s) ==
  [s EXCEPT !.hasMorePosts = (s.nextDom.next # NoLink)]

\* a finally that leaves the loading flag set
Finally_KeepLoading(w) == [w EXCEPT !.btn = updateButtonState(w.scroll, w.btn)]

\* the try block's finally
Finally(w) ==
  LET s == [w.scroll EXCEPT !.isLoading = FALSE]
  IN [w EXCEPT !.scroll = s, !.btn = updateButtonState(s, w.btn)]

(***************************************************************************)
(* loadMorePosts() from its entry to the await of fetch().  w is the part  *)
(* of the state a handler works on; w.issued, w.skipped, w.dispatched and  *)
(* w.layouts count what this handler run did: requests issued, calls       *)
(* turned away, newPostsLoaded events, layoutMasonry() calls.              *)
(***************************************************************************)
World ==
  [scroll |-> scroll, btn |-> btn, calls |-> calls, fetchCount |-> fetchCount,
   issued |-> 0, skipped |-> 0, dispatched |-> 0, layouts |-> 0]

\* a guard that forgets the loading flag
Skip_IgnoresLoading(s) == ~s.hasMorePosts

\* a guard that forgets the exhausted flag
Skip_IgnoresExhausted(s) == s.isLoading

\* the guard at the entry of loadMorePosts()
Skip(s) == s.isLoading \/ ~s.hasMorePosts

loadMorePosts(w) ==
  IF Skip(w.scroll)
  THEN [w EXCEPT !.skipped = @ + 1]
  ELSE LET s1 == [w.scroll EXCEPT !.isLoading = TRUE]
           b1 == updateButtonState(s1, w.btn)
           s2 == checkForNextPage(s1)
           nextLink == s1.nextDom.next
       IN IF nextLink = NoLink
          THEN LET s3 == [s2 EXCEPT !.hasMorePosts = FALSE]
               IN Finally([w EXCEPT !.scroll = s3,
                                    !.btn = updateButtonState(s3, b1)])
          ELSE [w EXCEPT !.scroll = s2,
                         !.btn = b1,
                         !.calls = @ \cup {[req |-> w.fetchCount + 1,
                                            url |-> nextLink,
                                            from |-> s1.nextDom.id,
                                            stage |-> "fetch",
                                            next |-> NoLink,
                                            pag |-> NoPagination,
                                            pre |-> w.scroll]},
                         !.fetchCount = @ + 1,
                         !.issued = @ + 1]

\* the handler's result becomes the state (w0 is evaluated once)
Commit(w0, op, pagValid) ==
  \E w \in {w0} :
    /\ scroll' = w.scroll
    /\ btn' = w.btn
    /\ calls' = w.calls
    /\ fetchCount' = w.fetchCount
    /\ last' = [op |-> op, issued |-> w.issued, skipped |-> w.skipped, pag |-> pagValid,
                dispatched |-> w.dispatched, layouts |-> w.layouts]

\* loadMorePosts() invoked on its own
CallLoadMore ==
  /\ fetchCount < MaxFetches
  /\ Commit(loadMorePosts(World), "call", "n/a")
  /\ UNCHANGED <<grid, timers, isMasonryGrid, fetched, appended, pagRead, tabVars, masonryVars, pileVars, bootVars>>

\* a click on the button: the listener added by init(), then the onclick
\* handler when showError() has installed one
Click ==
  /\ fetchCount < MaxFetches
  /\ ~btn.disabled
  /\ LET w1 == loadMorePosts(World)
         w2 == IF btn.onclick
               THEN loadMorePosts([w1 EXCEPT !.btn.classes = @ \ {"error"}])
               ELSE w1
     IN Commit(w2, IF btn.onclick THEN "retryClick" ELSE "click", "n/a")
  /\ UNCHANGED <<grid, timers, isMasonryGrid, fetched, appended, pagRead, tabVars, masonryVars, pileVars, bootVars>>

(***************************************************************************)
(* The response.                                                           *)
(***************************************************************************)
\* the cascade of selectors: the first one that matches anything wins
newPosts(doc) ==
  IF doc.articleLoop > 0 THEN doc.articleLoop
  ELSE IF doc.postFeed > 0 THEN doc.postFeed
  ELSE doc.masonry

\* a catch block that also gives up on further pages
Catch_GivesUp(w) == [w EXCEPT !.btn = showError(w.btn), !.scroll.hasMorePosts = FALSE]

\* the catch block
Catch(w) == [w EXCEPT !.btn = showError(w.btn)]

\* fetch() rejects, response.ok is false, or response.text() rejects
FetchFail(c) ==
  /\ c \in calls
  /\ c.stage = "fetch"
  /\ Commit(Finally(Catch([World EXCEPT !.calls = @ \ {c}])), "failed", "n/a")
  /\ UNCHANGED <<grid, timers, isMasonryGrid, fetched, appended, pagRead, tabVars, masonryVars, pileVars, bootVars>>

\* an else branch that reports the empty page as a failure
NoPostsFound_AsError(w) == [w EXCEPT !.btn = showError(w.btn)]

\* the else branch of if (newPosts.length > 0)
NoPostsFound(w) == [w EXCEPT !.scroll.hasMorePosts = FALSE]

\* a 2xx response from which no selector extracts a card
FetchEmpty(c, doc) ==
  /\ c \in calls
  /\ c.stage = "fetch"
  /\ newPosts(doc) = 0
  /\ Commit(Finally(NoPostsFound([World EXCEPT !.calls = @ \ {c}])), "empty", "n/a")
  /\ UNCHANGED <<grid, timers, isMasonryGrid, fetched, appended, pagRead, tabVars, masonryVars, pileVars, bootVars>>

\* the methods of the object index.js stores in window.MasonryGrid
MasonryGridMethods ==
  {"init", "waitForImages", "calculateColumns", "layoutMasonry", "positionCard",
   "bindEvents", "handleCardClick", "isInteractiveElement", "animateCardClick",
   "setupIntersectionObserver", "handleCardVisible", "lazyLoadImages", "handleResize",
   "handleInitialLayout", "handleMasonryUpdate", "trackCardClick", "getGridStats",
   "destroy"}

\* lines 510-518: layoutMasonry() is called when window.MasonryGrid has it;
\* the call finds isLayouting false, since a pass never spans two handlers
callLayoutMasonry(w) ==
  IF "layoutMasonry" \in MasonryGridMethods THEN [w EXCEPT !.layouts = @ + 1] ELSE w

\* a reinitializePostFeatures() that dispatches the event twice
reinitializePostFeatures_Twice(w) == [w EXCEPT !.dispatched = @ + 2]

\* reinitializePostFeatures(): one newPostsLoaded event on document
\* (window.postActions has no initializeNewPosts in this theme)
reinitializePostFeatures(w) == [w EXCEPT !.dispatched = @ + 1]

\* BlogPostDisplay.processPost(): a card that has the attribute is skipped,
\* any other is set up and marked
processPost(post) ==
  IF post.wordCount THEN post
  ELSE [post EXCEPT !.wordCount = TRUE, !.inits = @ + 1]

\* processAllPosts(), processNewlyLoadedPosts(): processPost() on the
\* .post-container elements of the document
processNewlyLoadedPosts(g) == [i \in 1..Len(g) |-> processPost(g[i])]

\* BlogPostDisplay.init() goes on only on the blog index, the page whose
\* feed is the .article-loop of .post-container cards
isBlogIndexPage == ~isMasonryGrid

\* the listeners of newPostsLoaded run once for each of n events
RECURSIVE Dispatch(_, _)
Dispatch(g, n) ==
  IF n = 0 \/ ~isBlogIndexPage THEN g
  ELSE Dispatch(processNewlyLoadedPosts(g), n - 1)

\* an update that reads the new document and leaves nextDom where it was
CursorUpdate_KeepDom(w, c, next, pag) ==
  LET s2 == readPaginationData(w.scroll, pag)
      s3 == checkForNextPage(s2)
  IN Finally([w EXCEPT !.scroll = s3, !.calls = @ \ {c}])

\* lines 450-460 and the finally: the cursor moves to the new document
CursorUpdate(w, c, next, pag) ==
  LET s1 == [w.scroll EXCEPT !.nextDom = [id |-> c.req, next |-> next]]
      s2 == readPaginationData(s1, pag)
      s3 == checkForNextPage(s2)
  IN Finally([w EXCEPT !.scroll = s3, !.calls = @ \ {c}])

\* a 2xx response with cards, on a regular feed: appendPosts() does not wait
FetchAppendFeed(c, doc) ==
  /\ c \in calls
  /\ c.stage = "fetch"
  /\ ~isMasonryGrid
  /\ newPosts(doc) > 0
  /\ LET new == [i \in 1..newPosts(doc) |-> Card(c.req, i, c.req)]
     IN /\ grid' = Dispatch(grid \o new, reinitializePostFeatures(World).dispatched)
        /\ appended' = appended \o CardIds(new)
        /\ timers' = Append(timers, c.req)
  /\ Commit(CursorUpdate(reinitializePostFeatures(World), c, doc.next, doc.pag),
            "loaded", doc.pag.valid)
  /\ pagRead' = blockRead(pagRead, doc.pag)
  /\ fetched' = [id |-> c.req, next |-> doc.next]
  /\ UNCHANGED <<isMasonryGrid, tabVars, masonryVars, pileVars, bootVars>>

\* a 2xx response with cards, on a masonry grid: the cards go into the grid
\* and appendPosts() waits for the images
FetchAppendMasonry(c, doc) ==
  /\ c \in calls
  /\ c.stage = "fetch"
  /\ isMasonryGrid
  /\ newPosts(doc) > 0
  /\ LET new == [i \in 1..newPosts(doc) |-> Card(c.req, i, 0)]
     IN /\ grid' = grid \o new
        /\ appended' = appended \o CardIds(new)
  /\ calls' = (calls \ {c}) \cup {[c EXCEPT !.stage = "images", !.next = doc.next, !.pag = doc.pag]}
  /\ last' = [op |-> "appended", issued |-> 0, skipped |-> 0, pag |-> "n/a",
              dispatched |-> 0, layouts |-> 0]
  /\ fetched' = [id |-> c.req, next |-> doc.next]
  /\ UNCHANGED <<scroll, btn, fetchCount, timers, isMasonryGrid, pagRead, tabVars, masonryVars, pileVars, bootVars>>

\* waitForImages() resolves: every image loaded, failed or timed out
ImagesSettled(c) ==
  /\ c \in calls
  /\ c.stage = "images"
  /\ calls' = (calls \ {c}) \cup {[c EXCEPT !.stage = "settle"]}
  /\ last' = [op |-> "images", issued |-> 0, skipped |-> 0, pag |-> "n/a",
              dispatched |-> 0, layouts |-> 0]
  /\ UNCHANGED <<scroll, btn, fetchCount, grid, timers, isMasonryGrid, fetched, appended, pagRead, tabVars, masonryVars, pileVars, bootVars>>

\* the 100 ms timer fires: layout, notification, cursor, finally; what the
\* loader itself records and changes
LayoutAndFinishStep(c) ==
  /\ c \in calls
  /\ c.stage = "settle"
  /\ Commit(CursorUpdate(reinitializePostFeatures(callLayoutMasonry(World)),
                         c, c.next, c.pag),
            "loaded", c.pag.valid)
  /\ grid' = Dispatch(grid, reinitializePostFeatures(World).dispatched)
  /\ pagRead' = blockRead(pagRead, c.pag)
  /\ UNCHANGED <<timers, isMasonryGrid, fetched, appended, tabVars, pileVars, bootVars>>

\* the same step where the layout engine is taken as constructed and its
\* pass is only counted
LayoutAndFinish(c) ==
  /\ LayoutAndFinishStep(c)
  /\ UNCHANGED masonryVars

\* the 650 ms timer of the oldest wrapper fires: its cards are moved to just
\* before the load-more container and the wrapper is removed
Unwrap ==
  /\ timers # <<>>
  /\ LET k == Head(timers)
         In(c) == c.wrapper = k
         Out(c) == c.wrapper # k
         moved == SelectSeq(grid, In)
     IN grid' = SelectSeq(grid, Out) \o [i \in 1..Len(moved) |-> [moved[i] EXCEPT !.wrapper = 0]]
  /\ timers' = Tail(timers)
  /\ last' = [op |-> "unwrap", issued |-> 0, skipped |-> 0, pag |-> "n/a",
              dispatched |-> 0, layouts |-> 0]
  /\ UNCHANGED <<scroll, btn, calls, fetchCount, isMasonryGrid, fetched, appended, pagRead, tabVars, masonryVars, pileVars, bootVars>>

(***************************************************************************)
(* The constructor and init() on a page that has the feed and the button.  *)
(***************************************************************************)
Constructed ==
  [isLoading |-> FALSE, hasMorePosts |-> TRUE, nextDom |-> [id |-> 0, next |-> NoLink],
   currentPage |-> 1, totalPages |-> 1]

InitScroll(doc) ==
  checkForNextPage(readPaginationData([Constructed EXCEPT !.nextDom.next = doc.next], doc.pag))

InitLoader ==
  \E doc \in InitialDocs :
    /\ scroll = InitScroll(doc)
    /\ btn = updateButtonState(InitScroll(doc),
               [disabled |-> FALSE, classes |-> {}, innerHTML |-> "", onclick |-> FALSE])
    /\ calls = {}
    /\ fetchCount = 0
    /\ isMasonryGrid \in BOOLEAN
    /\ grid = Dispatch([i \in 1..doc.cards |-> Card(0, i, 0)], 1)
    /\ appended = [i \in 1..doc.cards |-> CardId(Card(0, i, 0))]
    /\ timers = <<>>
    /\ last = [op |-> "init", issued |-> 0, skipped |-> 0, pag |-> doc.pag.valid,
               dispatched |-> 0, layouts |-> 0]
    /\ pagRead = blockRead(NothingRead, doc.pag)
    /\ fetched = [id |-> 0, next |-> doc.next]

\* a page without category tabs: CategoryTabs.init() returns at once
NoTabs ==
  /\ activeFilter = "all"
  /\ postCache = <<>>
  /\ initialCards = <<>>
  /\ tabCalls = {}
  /\ apiCount = [c \in Categories |-> 0]
  /\ loadingIndicator = ""
  /\ lastTab = [op |-> "init", filter |-> "all", served |-> "none", failed |-> FALSE,
                layouts |-> 0, threw |-> FALSE]

NextLoader ==
  \/ CallLoadMore
  \/ Click
  \/ \E c \in calls : FetchFail(c)
  \/ \E c \in calls, doc \in Docs : FetchEmpty(c, doc)
  \/ \E c \in calls, doc \in Docs : FetchAppendFeed(c, doc)
  \/ \E c \in calls, doc \in Docs : FetchAppendMasonry(c, doc)
  \/ \E c \in calls : ImagesSettled(c)
  \/ \E c \in calls : LayoutAndFinish(c)
  \/ Unwrap

\* the engine as constructed on an empty grid; the loader and the category
\* filter reach it through window.MasonryGrid only, and SpecMasonry follows
\* its own handlers
EngineAside ==
  /\ innerWidth = 1200
  /\ engine = [columns |-> <<0, 0>>, columnCount |-> 2, gap |-> 24, isLayouting |-> FALSE]
  /\ mcards = <<>>
  /\ gridHeight = -1
  /\ mtimers = {}
  /\ mpending = {}
  /\ lastM = [op |-> "init", passes |-> 0, stripped |-> FALSE, since |-> -1]

\* the components taken as constructed: SpecBoot follows the constructors
\* themselves, the other specifications start after them on a page that
\* has the anchors of its components
BootAside ==
  /\ dom = [feed |-> TRUE, button |-> TRUE, grid |-> TRUE, tabs |-> TRUE]
  /\ listeners = {}
  /\ thrown = {}
  /\ booted = {}

\* a page without a .the-pile element: the constructor of ThePile returns at
\* its first test and registers nothing (the-pile.js:8-9)
NoPile ==
  /\ isMobile = FALSE
  /\ isTablet = FALSE
  /\ pcards = <<>>
  /\ resizeTimer = -1
  /\ ptimers = {}
  /\ hovered = 0
  /\ focused = 0
  /\ lastP = [op |-> "none", card |-> 0, scattered |-> FALSE]

\* a page with a feed and a load-more button, without category tabs
InitFeedPage ==
  /\ InitLoader
  /\ NoTabs
  /\ EngineAside
  /\ NoPile
  /\ BootAside

SpecLoader == InitFeedPage /\ [][NextLoader]_vars

(***************************************************************************)
(* CategoryTabs.                                                           *)
(***************************************************************************)
\* buildCard(post, category)
buildCard(post, category) ==
  [kind |-> "card", batch |-> 0, idx |-> post, wrapper |-> 0, category |-> category,
   wordCount |-> FALSE, inits |-> 0]

\* the element showEmptyMessage() appends; category is the key named in its
\* text, the element has no data-category attribute
EmptyMessage(category) ==
  [kind |-> "message", batch |-> 0, idx |-> 0, wrapper |-> 0, category |-> category,
   wordCount |-> FALSE, inits |-> 0]

\* clearGrid() followed by createCards(posts, category)
createCards(posts, category) ==
  [i \in 1..Len(posts) |-> buildCard(posts[i], category)]

\* the window events the MasonryGrid of masonry-grid.js listens for
MasonryGridEvents == {"resize", "masonryUpdate", "load"}

\* resetMasonryLayout(): the layout passes it starts.  It dispatches
\* masonryReset on window and then calls window.MasonryGrid.layout(), which
\* throws a TypeError when the object has no such method.  Every handler
\* that shows cards ends with it: restoreInitialCards() and
\* displayCachedPosts() call it, createCards() calls it once the images of
\* the grid have loaded.
resetMasonryLayout ==
  (IF "masonryReset" \in MasonryGridEvents THEN 1 ELSE 0)
    + (IF "layout" \in MasonryGridMethods THEN 1 ELSE 0)

\* resetMasonryLayout() ends in a TypeError: window.MasonryGrid is set on
\* every page with a .masonry-grid, and layout is called on it whether it is
\* a function or not.  From createCards() the error is raised inside the try
\* block of fetchPosts() when the grid has no image (the catch block
\* alerts), else in the load or error listener of the last image.
resetThrows == "layout" \notin MasonryGridMethods

\* restoreInitialCards(): clearGrid() and a clone of every snapshot card
restoreInitialCards == initialCards

\* displayCachedPosts(category): the grid's own cards of that category when
\* it holds any, else cards built from the cache
displayCachedPosts(category) ==
  LET HasCategory(n) == n.kind = "card" /\ n.category = category
      cachedCards == SelectSeq(grid, HasCategory)
  IN IF Len(cachedCards) > 0 THEN cachedCards
     ELSE createCards(postCache[category], category)

\* a handler that never looks into the cache
InCache_Never(filter) == FALSE

\* if (this.postCache[filter])
InCache(filter) == filter \in DOMAIN postCache

ApiTotal == apiCount["poetry"] + apiCount["art"]

\* a click on the tab of `filter`, up to the await fetch() of fetchPosts()
handleTabClick(filter) ==
  IF filter = activeFilter
  THEN /\ lastTab' = [op |-> "click", filter |-> filter, served |-> "noop",
                       failed |-> FALSE, layouts |-> 0, threw |-> FALSE]
       /\ UNCHANGED <<activeFilter, grid, postCache, tabCalls, apiCount, loadingIndicator>>
  ELSE /\ activeFilter' = filter
       /\ IF filter = "all"
          THEN /\ grid' = restoreInitialCards
               /\ lastTab' = [op |-> "click", filter |-> filter, served |-> "snapshot",
                               failed |-> FALSE, layouts |-> resetMasonryLayout, threw |-> resetThrows]
               /\ UNCHANGED <<postCache, tabCalls, apiCount, loadingIndicator>>
          ELSE IF InCache(filter)
          THEN /\ grid' = displayCachedPosts(filter)
               /\ lastTab' = [op |-> "click", filter |-> filter, served |-> "cache",
                               failed |-> FALSE, layouts |-> resetMasonryLayout, threw |-> resetThrows]
               /\ UNCHANGED <<postCache, tabCalls, apiCount, loadingIndicator>>
          ELSE /\ ApiTotal < MaxTabFetches
               /\ loadingIndicator' = "block"
               /\ tabCalls' = tabCalls \cup {[id |-> ApiTotal + 1, category |-> filter]}
               /\ apiCount' = [apiCount EXCEPT ![filter] = @ + 1]
               /\ lastTab' = [op |-> "click", filter |-> filter, served |-> "fetch",
                               failed |-> FALSE, layouts |-> 0, threw |-> FALSE]
               /\ UNCHANGED <<grid, postCache>>

TabClick(filter) ==
  /\ handleTabClick(filter)
  /\ UNCHANGED <<initialCards, scrollVars, masonryVars, pileVars, bootVars>>

\* a test that takes any posts array, the empty one too
HasPosts_Always(posts) == TRUE

\* data.posts && data.posts.length > 0
HasPosts(posts) == Len(posts) > 0

\* fetchPosts(category) from the response on: lines 89-111.  There is no
\* test of response.ok and none of the active category.  lastTab.failed
\* records that the request rejected, the status was not 2xx or the body
\* did not parse; lastTab.layouts counts the layout passes the handler and
\* the image callback of createCards() start.
TabResponse(c, r) ==
  /\ c \in tabCalls
  /\ tabCalls' = tabCalls \ {c}
  /\ loadingIndicator' = "none"
  /\ IF r.rejects \/ ~r.json
     THEN \* await fetch() or await response.json() throws: catch, alert
          /\ lastTab' = [op |-> "response", filter |-> c.category, served |-> "none",
                          failed |-> TRUE, layouts |-> 0, threw |-> FALSE]
          /\ UNCHANGED <<grid, postCache>>
     ELSE IF HasPosts(r.posts)
     THEN /\ postCache' = [k \in DOMAIN postCache \cup {c.category} |->
                              IF k = c.category THEN r.posts ELSE postCache[k]]
          /\ grid' = createCards(r.posts, c.category)
          /\ lastTab' = [op |-> "response", filter |-> c.category, served |-> "posts",
                          failed |-> ~r.ok, layouts |-> resetMasonryLayout, threw |-> resetThrows]
     ELSE /\ grid' = <<EmptyMessage(c.category)>>
          /\ lastTab' = [op |-> "response", filter |-> c.category, served |-> "empty",
                          failed |-> ~r.ok, layouts |-> 0, threw |-> FALSE]
          /\ UNCHANGED postCache
  /\ UNCHANGED <<activeFilter, initialCards, apiCount, scrollVars, masonryVars, pileVars, bootVars>>

\* the constructor and init(): storeInitialCards() clones the grid's cards
InitTabs ==
  /\ activeFilter = "all"
  /\ postCache = <<>>
  /\ initialCards = grid
  /\ tabCalls = {}
  /\ apiCount = [c \in Categories |-> 0]
  /\ loadingIndicator = ""
  /\ lastTab = [op |-> "init", filter |-> "all", served |-> "none", failed |-> FALSE,
                layouts |-> 0, threw |-> FALSE]

\* a page with category tabs and no load-more button: InfiniteScroll is not
\* constructed (src/src/js/index.js:110-147)
NoLoader ==
  /\ scroll = Constructed
  /\ btn = [disabled |-> FALSE, classes |-> {}, innerHTML |-> "", onclick |-> FALSE]
  /\ calls = {}
  /\ fetchCount = 0
  /\ timers = <<>>
  /\ isMasonryGrid = TRUE
  /\ appended = CardIds(grid)
  /\ last = [op |-> "init", issued |-> 0, skipped |-> 0, pag |-> "absent",
             dispatched |-> 0, layouts |-> 0]
  /\ pagRead = NothingRead
  /\ fetched = [id |-> 0, next |-> NoLink]

InitPage ==
  /\ \E n \in MatchCounts : grid = [i \in 1..n |-> Card(0, i, 0)]
  /\ NoLoader
  /\ InitTabs
  /\ EngineAside
  /\ NoPile
  /\ BootAside

NextTabs ==
  \/ \E filter \in {"all"} \cup Categories : TabClick(filter)
  \/ \E c \in tabCalls, r \in TabResponses : TabResponse(c, r)

SpecTabs == InitPage /\ [][NextTabs]_vars

(***************************************************************************)
(* The Masonry Layout Engine: class MasonryGrid of                         *)
(* src/src/js/modules/masonry-grid.js, the object index.js stores in       *)
(* window.MasonryGrid.  A layout pass runs inside one handler from its     *)
(* first statement to its last.  Time is followed in steps of 50 ms, which *)
(* divides every delay the engine uses.                                    *)
(***************************************************************************)
\* the most cards the grid holds while the engine's events are followed
MaxCards == 3

\* the most cards of unequal heights a single layout pass is given
MaxMixedCards == 4

\* the most cards of one height a single layout pass is given
MaxEqualCards == 10

\* card.offsetHeight of the cards the server can render
Heights == {100, 300, 450}

\* viewport widths the window can be resized to
Widths == {767, 768, 4000}

\* viewport widths a page can be loaded at
LoadWidths == {400, 767, 768, 1200, 4000}

\* the mobile breakpoint of calculateColumns() and positionCard()
Breakpoint == 767

\* the delay between the entrance animations of two cards
StaggerMs == 100

\* the delay of the layout pass after a change of the column count
RelayoutMs == 100

\* the wait of the debounced resize handler
DebounceMs == 150

RECURSIVE SeqsUpTo(_, _)
SeqsUpTo(S, n) ==
  IF n = 0 THEN {<<>>}
  ELSE LET shorter == SeqsUpTo(S, n - 1)
       IN shorter \cup {Append(q, x) : q \in {r \in shorter : Len(r) = n - 1}, x \in S}

\* a card without inline position and without the positioned class
NewCard(h) == [height |-> h, left |-> -1, top |-> -1, width |-> -1, positioned |-> FALSE]

\* the part of the state the engine's handlers work on; passes and stripped
\* record what a handler run did: layout passes run to their end, and
\* whether it took the positioned class off the cards
EngineWorld ==
  [innerWidth |-> innerWidth, engine |-> engine, cards |-> mcards,
   gridHeight |-> gridHeight, timers |-> mtimers, passes |-> 0, stripped |-> FALSE]

\* new Array(n).fill(0)
Zeros(n) == [i \in 1..n |-> 0]

Max(seq) == CHOOSE x \in {seq[i] : i \in 1..Len(seq)} : \A i \in 1..Len(seq) : seq[i] <= x

Min(seq) == CHOOSE x \in {seq[i] : i \in 1..Len(seq)} : \A i \in 1..Len(seq) : x <= seq[i]

\* this.grid.offsetWidth: the grid is as wide as the viewport
offsetWidth(W) == W.innerWidth

\* a resolver that puts the breakpoint itself on the desktop side
calculateColumns_Exclusive(W) ==
  IF W.innerWidth < Breakpoint
  THEN [W EXCEPT !.engine.columnCount = 1, !.engine.gap = 16, !.engine.columns = Zeros(1)]
  ELSE [W EXCEPT !.engine.columnCount = 2, !.engine.gap = 24, !.engine.columns = Zeros(2)]

\* calculateColumns()
calculateColumns(W) ==
  IF W.innerWidth <= Breakpoint
  THEN [W EXCEPT !.engine.columnCount = 1, !.engine.gap = 16, !.engine.columns = Zeros(1)]
  ELSE [W EXCEPT !.engine.columnCount = 2, !.engine.gap = 24, !.engine.columns = Zeros(2)]

\* a choice of column that always takes the first
shortestColumnIndex_First(columns) == 1

\* a choice of column that takes the last of the shortest
shortestColumnIndex_Last(columns) ==
  CHOOSE i \in 1..Len(columns) :
    /\ columns[i] = Min(columns)
    /\ \A j \in (i + 1)..Len(columns) : columns[j] # Min(columns)

\* this.columns.indexOf(Math.min(...this.columns)), counted from 1
shortestColumnIndex(columns) ==
  CHOOSE i \in 1..Len(columns) :
    /\ columns[i] = Min(columns)
    /\ \A j \in 1..(i - 1) : columns[j] # Min(columns)

\* a positionCard() whose left offset leaves the gap out
positionCard_LeftNoGap(W, cardWidth, k) ==
  IF W.innerWidth <= Breakpoint THEN W
  ELSE LET c == shortestColumnIndex(W.engine.columns)
       IN [W EXCEPT !.cards[k].left = (c - 1) * cardWidth,
                    !.cards[k].top = W.engine.columns[c],
                    !.cards[k].width = cardWidth,
                    !.engine.columns[c] = @ + W.cards[k].height + W.engine.gap,
                    !.timers = @ \cup {[kind |-> "stagger", card |-> k,
                                        due |-> (k - 1) * StaggerMs]}]

\* a positionCard() whose accumulator grows by the card's height alone
positionCard_NoGap(W, cardWidth, k) ==
  IF W.innerWidth <= Breakpoint THEN W
  ELSE LET c == shortestColumnIndex(W.engine.columns)
       IN [W EXCEPT !.cards[k].left = (c - 1) * (cardWidth + W.engine.gap),
                    !.cards[k].top = W.engine.columns[c],
                    !.cards[k].width = cardWidth,
                    !.engine.columns[c] = @ + W.cards[k].height,
                    !.timers = @ \cup {[kind |-> "stagger", card |-> k,
                                        due |-> (k - 1) * StaggerMs]}]

\* positionCard(card, cardWidth, index) for the k-th card (index = k - 1)
positionCard(W, cardWidth, k) ==
  IF W.innerWidth <= Breakpoint THEN W
  ELSE LET c == shortestColumnIndex(W.engine.columns)
           left == (c - 1) * (cardWidth + W.engine.gap)
           top == W.engine.columns[c]
           cardHeight == W.cards[k].height
       IN [W EXCEPT !.cards[k].left = left,
                    !.cards[k].top = top,
                    !.cards[k].width = cardWidth,
                    !.engine.columns[c] = @ + cardHeight + W.engine.gap,
                    !.timers = @ \cup {[kind |-> "stagger", card |-> k,
                                        due |-> (k - 1) * StaggerMs]}]

\* this.cards.forEach(...) up to and including the k-th card
RECURSIVE positionCards(_, _, _)
positionCards(W, cardWidth, k) ==
  IF k = 0 THEN W
  ELSE positionCard(positionCards(W, cardWidth, k - 1), cardWidth, k)

\* a guard that lets every call through
Dropped_Never(W) == FALSE

\* if (this.isLayouting) return;
Dropped(W) == W.engine.isLayouting

\* a start of the pass that keeps the accumulators of the pass before
BeginPass_KeepColumns(W) == [W EXCEPT !.engine.isLayouting = TRUE]

\* lines 85-88: the flag is set and the accumulators are reset
BeginPass(W) ==
  [W EXCEPT !.engine.isLayouting = TRUE, !.engine.columns = Zeros(W.engine.columnCount)]

\* lines 91-92
CardWidth(W) ==
  (offsetWidth(W) - W.engine.gap * (W.engine.columnCount - 1)) \div W.engine.columnCount

\* the state inside a running pass when k cards have been positioned
PassPrefix(W, k) == positionCards(BeginPass(W), CardWidth(W), k)

\* lines 100-103: the grid's height, and the flag is cleared
EndPass(W) ==
  [W EXCEPT !.gridHeight = Max(W.engine.columns),
            !.engine.isLayouting = FALSE,
            !.passes = @ + 1]

\* layoutMasonry()
layoutMasonry(W) ==
  IF Dropped(W) THEN W
  ELSE EndPass(PassPrefix(W, Len(W.cards)))

\* handleResize()
handleResize(W) ==
  LET oldColumnCount == W.engine.columnCount
      W1 == calculateColumns(W)
  IN IF oldColumnCount # W1.engine.columnCount
     THEN [W1 EXCEPT !.cards = [i \in 1..Len(W1.cards) |->
                                  [W1.cards[i] EXCEPT !.positioned = FALSE]],
                     !.timers = @ \cup {[kind |-> "relayout", card |-> 0,
                                         due |-> RelayoutMs]},
                     !.stripped = TRUE]
     ELSE layoutMasonry(W1)

\* the handler's result becomes the state; lastM.stripped stays set from the
\* handler that took the positioned class off until a layout pass has run;
\* lastM.since is the time since the last resize event, up to DebounceMs,
\* and -1 when handleResize() has run since
CommitEngine(W0, op) ==
  \E W \in {W0} :
    /\ innerWidth' = W.innerWidth
    /\ engine' = W.engine
    /\ mcards' = W.cards
    /\ gridHeight' = W.gridHeight
    /\ mtimers' = W.timers
    /\ lastM' = [op |-> op, passes |-> W.passes,
                 stripped |-> W.stripped \/ (lastM.stripped /\ W.passes = 0),
                 since |-> IF op = "resize" THEN 0
                           ELSE IF op = "handleResize" THEN -1
                           ELSE lastM.since]

\* the promise of waitForImages() resolves: the first layout pass
ImagesLoaded ==
  /\ "images" \in mpending
  /\ mpending' = mpending \ {"images"}
  /\ CommitEngine(layoutMasonry(EngineWorld), "images")
  /\ UNCHANGED <<grid, scrollVars, tabVars, pileVars, bootVars>>

\* the load event of window
WindowLoad ==
  /\ "load" \in mpending
  /\ mpending' = mpending \ {"load"}
  /\ CommitEngine(layoutMasonry(EngineWorld), "load")
  /\ UNCHANGED <<grid, scrollVars, tabVars, pileVars, bootVars>>

\* a debounce() that sets its timer without clearing the one that waits
debounce_NoClear(pending) ==
  pending \cup {[kind |-> "debounce", card |-> 0, due |-> DebounceMs]}

\* the function debounce() returns, with immediate unset: clearTimeout,
\* setTimeout(later, wait)
debounce(pending) ==
  (pending \ {t \in pending : t.kind = "debounce"})
    \cup {[kind |-> "debounce", card |-> 0, due |-> DebounceMs]}

\* a resize event: the window has a new width and the debounced handler
\* restarts its wait
Resize(w) ==
  /\ w # innerWidth
  /\ CommitEngine([EngineWorld EXCEPT !.innerWidth = w, !.timers = debounce(@)],
                  "resize")
  /\ UNCHANGED <<mpending, grid, scrollVars, tabVars, pileVars, bootVars>>

\* a timer that is due fires
TimerFires(t) ==
  /\ t \in mtimers
  /\ t.due = 0
  /\ LET W == [EngineWorld EXCEPT !.timers = @ \ {t}]
     IN CASE t.kind = "stagger" ->
               CommitEngine([W EXCEPT !.cards[t.card].positioned = TRUE], "stagger")
          [] t.kind = "relayout" ->
               CommitEngine(layoutMasonry(W), "relayout")
          [] t.kind = "debounce" ->
               CommitEngine(handleResize(W), "handleResize")
  /\ UNCHANGED <<mpending, grid, scrollVars, tabVars, pileVars, bootVars>>

\* 50 ms pass while no timer is due
Tick ==
  /\ mtimers # {}
  /\ \A t \in mtimers : t.due > 0
  /\ mtimers' = {[t EXCEPT !.due = @ - 50] : t \in mtimers}
  /\ lastM' = [lastM EXCEPT !.since = IF @ >= 0 /\ @ < DebounceMs THEN @ + 50 ELSE @]
  /\ UNCHANGED <<innerWidth, engine, mcards, gridHeight, mpending, grid, scrollVars,
                 tabVars, pileVars, bootVars>>

\* the constructor and init() on a page whose grid holds the given cards
Constructor(w, heights) ==
  calculateColumns(
    [innerWidth |-> w,
     engine |-> [columns |-> <<>>, columnCount |-> 2, gap |-> 24, isLayouting |-> FALSE],
     cards |-> [i \in 1..Len(heights) |-> NewCard(heights[i])],
     gridHeight |-> -1, timers |-> {}, passes |-> 0, stripped |-> FALSE])

\* n cards of height h
Equal(n, h) == [i \in 1..n |-> h]

InitEngine(widths, lists) ==
  \E w \in widths, heights \in lists :
    /\ innerWidth = w
    /\ engine = Constructor(w, heights).engine
    /\ mcards = Constructor(w, heights).cards
    /\ gridHeight = -1
    /\ mtimers = {}
    /\ mpending = {"images", "load"}
    /\ lastM = [op |-> "init", passes |-> 0, stripped |-> FALSE, since |-> -1]

\* a page with a masonry grid of up to MaxCards cards of one height, without
\* load-more button and category tabs
InitGridPage ==
  /\ InitEngine(Widths, {Equal(n, 300) : n \in 0..MaxCards})
  /\ grid = <<>>
  /\ NoLoader
  /\ NoTabs
  /\ NoPile
  /\ BootAside

\* the same page with any cards, for the layout passes of page load
InitLayoutPage ==
  /\ InitEngine(LoadWidths,
                SeqsUpTo(Heights, MaxMixedCards)
                  \cup {Equal(n, h) : n \in 0..MaxEqualCards, h \in Heights})
  /\ grid = <<>>
  /\ NoLoader
  /\ NoTabs
  /\ NoPile
  /\ BootAside

NextEngine ==
  \/ ImagesLoaded
  \/ WindowLoad
  \/ \E w \in Widths : Resize(w)
  \/ \E t \in mtimers : TimerFires(t)
  \/ Tick

SpecMasonry == InitGridPage /\ [][NextEngine]_vars

\* the two layout passes of page load, in either order
NextLayout ==
  \/ ImagesLoaded
  \/ WindowLoad

SpecLayout == InitLayoutPage /\ [][NextLayout]_vars

(***************************************************************************)
(* Properties of the Category Filter.                                      *)
(***************************************************************************)

\* C2: when the response (2xx) of a fetch arrives for a category that is no
\* longer the active one, it is ignored: the grid is left as it is.
StaleResponseIgnored ==
  [][\A c \in tabCalls :
       (c \notin tabCalls' /\ ~lastTab'.failed /\ c.category # activeFilter)
         => grid' = grid]_vars

\* C5: every selection of "all" ends with the grid equal to the snapshot of
\* page load, issues no request and leaves the snapshot as it was.
AllRestoresSnapshot ==
  [][(lastTab'.op = "click" /\ lastTab'.filter = "all")
       => /\ grid' = initialCards
          /\ apiCount' = apiCount
          /\ initialCards' = initialCards]_vars

\* C6: a category that has a cache entry keeps it, no later step issues a
\* request for it, and selecting it shows the cards of the cached posts.
CachedCategoryServedFromCache ==
  [][\A c \in DOMAIN postCache :
       /\ c \in DOMAIN postCache'
       /\ apiCount'[c] = apiCount[c]
       /\ (lastTab'.op = "click" /\ lastTab'.filter = c /\ lastTab'.served # "noop")
            => /\ lastTab'.served = "cache"
               /\ grid' = createCards(postCache[c], c)]_vars

\* C6: poetry, art, poetry: the second selection of poetry was served from
\* the cache, after one request for each category.
PoetryArtPoetry ==
  /\ activeFilter = "poetry"
  /\ lastTab.op = "click"
  /\ lastTab.served = "cache"
  /\ apiCount["poetry"] = 1
  /\ apiCount["art"] = 1
  /\ "art" \in DOMAIN postCache
  /\ tabCalls = {}

\* C7: the step in which a category fetch fails (the request rejects or the
\* status is not 2xx) changes neither the grid nor the cache.
FailedFetchLeavesGrid ==
  [][\A c \in tabCalls :
       (c \notin tabCalls' /\ lastTab'.failed)
         => (grid' = grid /\ postCache' = postCache)]_vars

(***************************************************************************)
(* Properties of the Incremental Loader.                                   *)
(***************************************************************************)

\* C1: at most one loadMorePosts() invocation is suspended at any time, so
\* at most one fetch is outstanding; a call (or the second handler of one
\* click) that arrives meanwhile issues no request.
AtMostOneFetchInFlight == Cardinality(calls) <= 1

\* C1: a click after an error ran both handlers; the listener issued the
\* request and the retry handler was turned away.
RetryClickIssuedOne ==
  /\ last.op = "retryClick"
  /\ last.issued = 1
  /\ last.skipped = 1
  /\ Cardinality(calls) = 1

\* C3: once hasMorePosts is false, no step makes it true again and no step
\* issues a request.
ExhaustedIsTerminal ==
  [][~scroll.hasMorePosts => (~scroll'.hasMorePosts /\ fetchCount' = fetchCount)]_vars

\* C3: the loader became exhausted after a fetch and turned a later
\* loadMorePosts() away.
ExhaustedCallSkipped ==
  /\ ~scroll.hasMorePosts
  /\ fetchCount > 0
  /\ last.op = "call"
  /\ last.skipped = 1
  /\ last.issued = 0

FailureKeepsCursor ==
  [][\A c \in calls :
       (c \notin calls' /\ last'.op = "failed")
         => /\ scroll'.currentPage = c.pre.currentPage
            /\ scroll'.totalPages = c.pre.totalPages
            /\ scroll'.hasMorePosts = c.pre.hasMorePosts
            /\ scroll'.nextDom = c.pre.nextDom
            /\ grid' = grid
            /\ appended' = appended]_vars

\* C8: a fetch failed after an earlier one had moved the cursor.
FailedAfterProgress ==
  /\ last.op = "failed"
  /\ scroll.nextDom.id > 0
  /\ calls = {}

\* C9: after a failed fetch has completed, the button is enabled, marked
\* as error and shows the retry text.
ErrorShownAfterFailure ==
  (last.op = "failed")
    => /\ ~btn.disabled
       /\ "error" \in btn.classes
       /\ btn.innerHTML = "Failed to load posts. Try again?"

\* C10: after a document whose pagination block is not valid JSON has been
\* processed (at init or after a fetch), hasMorePosts is false.
MalformedMetadataExhausts ==
  (last.op \in {"init", "loaded"} /\ last.pag = "malformed") => ~scroll.hasMorePosts

\* C11: when the pagination block read last reports hasNext = false, a
\* loadMorePosts() call (on its own or from a click) issues no request and
\* leaves the loader's fields as they were, whatever link[rel="next"] says.
NoFetchWhenMetadataSaysLast ==
  [][(pagRead.valid = "ok" /\ ~pagRead.hasNext
        /\ last'.op \in {"call", "click", "retryClick"})
       => (fetchCount' = fetchCount /\ scroll' = scroll)]_vars

EmptyExtractionExhausts ==
  [][/\ (last'.op = "empty")
          => /\ ~scroll'.hasMorePosts
             /\ ~scroll'.isLoading
             /\ btn'.disabled
             /\ "error" \notin btn'.classes
             /\ btn'.innerHTML = "No more posts"
             /\ grid' = grid
             /\ appended' = appended
             /\ last'.dispatched = 0
     /\ ~scroll.hasMorePosts
          => (fetchCount' = fetchCount /\ ~scroll'.hasMorePosts)]_vars

\* C12: a second page was appended and the third came back without cards.
EmptyAfterAppend ==
  /\ last.op = "empty"
  /\ scroll.nextDom.id = 1
  /\ fetchCount = 2
  /\ Len(appended) > 0
  /\ calls = {}

(***************************************************************************)
(* Properties that involve the Masonry Layout Engine.                      *)
(***************************************************************************)

\* C13: every handler that changes the cards of the masonry grid (the
\* loader's append, a category's cards shown, the snapshot restored) starts
\* exactly one layout pass; the loader starts a pass only in the step that
\* follows the settling of the images of the appended cards.
MutationLaidOutOnce ==
  [][/\ (isMasonryGrid /\ last'.op = "loaded" /\ calls' # calls) => last'.layouts = 1
     /\ (last' # last /\ last'.layouts > 0)
          => \E c \in calls : c.stage = "settle" /\ c \notin calls'
     /\ (tabVars' # tabVars /\ lastTab'.served \in {"snapshot", "cache", "posts"})
          => lastTab'.layouts = 1]_vars

\* C15: between handlers the in-progress flag is false, so the next call
\* starts a pass; and a layoutMasonry() call made inside a running pass,
\* after any number of cards have been positioned, returns with the columns,
\* the cards, the grid height and the timers as it found them.
PassesNeverOverlap ==
  /\ ~engine.isLayouting
  /\ \A k \in 0..Len(mcards) :
       /\ PassPrefix(EngineWorld, k).engine.isLayouting
       /\ layoutMasonry(PassPrefix(EngineWorld, k)) = PassPrefix(EngineWorld, k)

\* C15: a pass has positioned two or more cards in two columns.
PassRanOnDesktop ==
  /\ lastM.passes = 1
  /\ engine.columnCount = 2
  /\ Len(mcards) >= 2
  /\ gridHeight > 0

\* the column a card was put in, from its left offset
ColumnOf(card) == card.left \div (card.width + engine.gap)

\* C16: a layout pass that follows a layout pass, with the cards, their
\* heights, the width, the column count and the gap unchanged, leaves every
\* card's left, top and width, the accumulators and the grid's height as the
\* first pass set them.
LayoutIdempotent ==
  [][(lastM.passes = 1 /\ lastM'.passes = 1 /\ mpending' # mpending)
       => /\ mcards' = mcards
          /\ engine' = engine
          /\ gridHeight' = gridHeight]_vars

\* C16: both passes of page load have run over cards of unequal heights in
\* two columns.
SecondPassRan ==
  /\ mpending = {}
  /\ lastM.passes = 1
  /\ engine.columnCount = 2
  /\ Len(mcards) >= 3
  /\ \E i, j \in 1..Len(mcards) : mcards[i].height # mcards[j].height
  /\ \E i \in 1..Len(mcards) : mcards[i].left > 0

\* the height of the tallest card, 0 without cards
Tallest == IF mcards = <<>> THEN 0 ELSE Max([i \in 1..Len(mcards) |-> mcards[i].height])

\* C17 as stated: after a pass with more than one column the accumulators
\* differ by at most the height of the tallest card.
ColumnBalance ==
  (lastM.passes = 1 /\ engine.columnCount > 1)
    => Max(engine.columns) - Min(engine.columns) <= Tallest

\* C17: after a pass with more than one column the accumulators differ by
\* at most the height of the tallest card plus the gap.
ColumnBalanceWithGap ==
  (lastM.passes = 1 /\ engine.columnCount > 1)
    => Max(engine.columns) - Min(engine.columns) <= Tallest + engine.gap

\* C17: a pass has filled both columns with cards of unequal heights.
BothColumnsFilled ==
  /\ lastM.passes = 1
  /\ engine.columnCount = 2
  /\ Min(engine.columns) > 0
  /\ Max(engine.columns) > Min(engine.columns)
  /\ \E i, j \in 1..Len(mcards) : mcards[i].height # mcards[j].height

\* ten cards of 300 px on a viewport of 1200 px, laid out
TenCardsLaidOut ==
  /\ innerWidth = 1200
  /\ Len(mcards) = 10
  /\ \A i \in 1..Len(mcards) : mcards[i].height = 300
  /\ lastM.passes = 1

\* the cards sit in column 0, 1, 0, 1, ... of two columns with gap 24
Alternating ==
  /\ engine.columnCount = 2
  /\ engine.gap = 24
  /\ \A i \in 1..Len(mcards) : ColumnOf(mcards[i]) = (i - 1) % 2

\* C18 as stated: the ten cards alternate between the two columns and the
\* grid is 5 x 300 + 4 x 24 = 1596 px high.
TenCardsScenario == TenCardsLaidOut => (Alternating /\ gridHeight = 1596)

\* C18: the ten cards alternate between the two columns and the grid is
\* 5 x (300 + 24) = 1620 px high, the gap below the last card included.
TenCardsScenarioWithGap == TenCardsLaidOut => (Alternating /\ gridHeight = 1620)

\* C18: the scenario after both passes of page load.
TenCardsLaidOutTwice == TenCardsLaidOut /\ mpending = {}

\* C19: the accumulator list is as long as the column count; and right
\* after a resolution (the constructor's or handleResize's) a width of at
\* most 767 has 1 column and gap 16, any wider one 2 columns and gap 24.
BreakpointPolicy ==
  /\ Len(engine.columns) = engine.columnCount
  /\ (lastM.op \in {"init", "handleResize"})
       => /\ (innerWidth <= 767) => (engine.columnCount = 1 /\ engine.gap = 16)
          /\ (innerWidth > 767) => (engine.columnCount = 2 /\ engine.gap = 24)

\* C19: the window was resized down to exactly 767 px and resolved again.
ResolvedAtBreakpoint ==
  /\ lastM.op = "handleResize"
  /\ lastM.stripped
  /\ innerWidth = 767
  /\ engine.columnCount = 1

\* C20: from the handleResize() that found another column count until a
\* layout pass has run, no card has the positioned class; a handleResize()
\* that found the same column count takes the class off no card.
StrippedUntilRelayout ==
  [][/\ lastM'.stripped => \A i \in 1..Len(mcards') : ~mcards'[i].positioned
     /\ (lastM'.op = "handleResize" /\ engine'.columnCount = engine.columnCount)
          => \A i \in 1..Len(mcards) : mcards[i].positioned => mcards'[i].positioned]_vars

\* the step runs a layout pass to its end: the promise of the images or the
\* load event is consumed, or a relayout or debounce timer that was due
PassStep ==
  /\ lastM'.passes = 1
  /\ \/ mpending' # mpending
     \/ \E t \in mtimers : t.kind \in {"relayout", "debounce"} /\ t.due = 0 /\ t \notin mtimers'

\* C21: a layout pass at a width of at most 767 leaves the left, top and
\* width of every card as they were, and has every card on its way to the
\* positioned class: the k-th card's timer is pending, (k - 1) stagger delays
\* from now.
MobilePassStaggers ==
  [][(PassStep /\ innerWidth' <= 767)
       => \A k \in 1..Len(mcards') :
            /\ mcards'[k].left = mcards[k].left
            /\ mcards'[k].top = mcards[k].top
            /\ mcards'[k].width = mcards[k].width
            /\ [kind |-> "stagger", card |-> k, due |-> (k - 1) * StaggerMs] \in mtimers']_vars

\* C22: the step in which a category fetch comes back (2xx) without posts
\* leaves the grid with the empty-state message as its only child and the
\* cache as it was; and a click on a category other than the active one
\* that has no cache entry issues a request for it.  No step puts an empty
\* list of posts in the cache.
ZeroPostsNotCached ==
  [][/\ \A k \in DOMAIN postCache' : postCache'[k] # <<>>
     /\ \A c \in tabCalls :
          (c \notin tabCalls' /\ lastTab'.served = "empty" /\ ~lastTab'.failed)
            => /\ grid' = <<EmptyMessage(c.category)>>
               /\ postCache' = postCache
     /\ \A f \in Categories \ DOMAIN postCache :
          (lastTab'.op = "click" /\ lastTab'.filter = f /\ activeFilter # f
             /\ activeFilter' = f)
            => /\ lastTab'.served = "fetch"
               /\ apiCount'[f] = apiCount[f] + 1]_vars

\* C22: poetry came back without posts; after a visit to art, poetry was
\* selected again and is being fetched a second time.
EmptyCategoryFetchedAgain ==
  /\ grid = <<EmptyMessage("poetry")>>
  /\ "poetry" \notin DOMAIN postCache
  /\ activeFilter = "poetry"
  /\ lastTab.op = "click"
  /\ lastTab.served = "fetch"
  /\ apiCount["poetry"] = 2
  /\ apiCount["art"] = 1

(***************************************************************************)
(* The pile: src/src/js/modules/the-pile.js.  A card is its dataset        *)
(* (originalRotation, originalX, originalY, originalZ), its inline         *)
(* transform (x, y, rotation, scale in hundredths), its inline z-index and *)
(* its two classes.  Math.random() is drawn from Draws, in halves.         *)
(***************************************************************************)
\* the numbers of cards of the piles looked at
PileSizes == {1, 2}

MaxTouchTimers == 1

MobileBelow == 768

TabletBelow == 1024

PileDebounceMs == 250

AutoPutDownMs == 2000

PileWidths == {767, 768, 1023, 1024}

\* the four Math.random() results of one card, each 0 or 1/2
PileDraws ==
  { [r |-> 0, x |-> 0, y |-> 0, z |-> 0],
    [r |-> 1, x |-> 1, y |-> 0, z |-> 1] }

PileCard ==
  [originalRotation |-> 0, originalX |-> 0, originalY |-> 0, originalZ |-> 0,
   rotation |-> 0, x |-> 0, y |-> 0, scale |-> 100, zIndex |-> 0,
   active |-> FALSE, dimmed |-> FALSE]

\* mobile, tablet or desktop, from the two flags
DeviceClass(mobile, tablet) ==
  IF mobile THEN "mobile" ELSE IF tablet THEN "tablet" ELSE "desktop"

\* the ranges of scatterCards(), lines 42-58
scatterRange(mobile, tablet) ==
  IF mobile THEN [rotation |-> 8, x |-> 40, y |-> 40]
  ELSE IF tablet THEN [rotation |-> 12, x |-> 150, y |-> 120]
  ELSE [rotation |-> 15, x |-> 290, y |-> 200]

\* scatterCards(): Math.random() * (range * 2) - range with Math.random() =
\* d / 2, and Math.floor(Math.random() * cards.length)
scatterCards(cards, mobile, tablet, draws) ==
  LET R == scatterRange(mobile, tablet)
  IN [k \in 1..Len(cards) |->
        LET rotation == draws[k].r * R.rotation - R.rotation
            xOffset == draws[k].x * R.x - R.x
            yOffset == draws[k].y * R.y - R.y
            zIndex == (draws[k].z * Len(cards)) \div 2
        IN [cards[k] EXCEPT !.originalRotation = rotation, !.originalX = xOffset,
                            !.originalY = yOffset, !.originalZ = zIndex,
                            !.rotation = rotation, !.x = xOffset, !.y = yOffset,
                            !.scale = 100, !.zIndex = zIndex]]

\* a pick-up that leaves the z-index of the card where it is
pickUpCard_KeepZ(cards, c, mobile) ==
  [k \in 1..Len(cards) |->
     IF k = c
     THEN [cards[k] EXCEPT !.x = cards[k].originalX, !.y = cards[k].originalY,
                           !.rotation = 0, !.scale = IF mobile THEN 105 ELSE 108,
                           !.active = TRUE]
     ELSE [cards[k] EXCEPT !.dimmed = TRUE]]

\* pickUpCard(card), lines 108-126
pickUpCard(cards, c, mobile) ==
  [k \in 1..Len(cards) |->
     IF k = c
     THEN [cards[k] EXCEPT !.zIndex = Len(cards) + 10,
                           !.x = cards[k].originalX, !.y = cards[k].originalY,
                           !.rotation = 0, !.scale = IF mobile THEN 105 ELSE 108,
                           !.active = TRUE]
     ELSE [cards[k] EXCEPT !.dimmed = TRUE]]

\* a put-down that takes the dimming off the card itself only
putDownCard_KeepDimmed(cards, c) ==
  [k \in 1..Len(cards) |->
     IF k = c
     THEN [cards[k] EXCEPT !.zIndex = cards[k].originalZ,
                           !.rotation = cards[k].originalRotation,
                           !.x = cards[k].originalX, !.y = cards[k].originalY,
                           !.scale = 100, !.active = FALSE, !.dimmed = FALSE]
     ELSE cards[k]]

\* putDownCard(card), lines 128-144
putDownCard(cards, c) ==
  [k \in 1..Len(cards) |->
     IF k = c
     THEN [cards[k] EXCEPT !.zIndex = cards[k].originalZ,
                           !.rotation = cards[k].originalRotation,
                           !.x = cards[k].originalX, !.y = cards[k].originalY,
                           !.scale = 100, !.active = FALSE, !.dimmed = FALSE]
     ELSE [cards[k] EXCEPT !.dimmed = FALSE]]

\* what the pile's handlers leave alone
pileFrame ==
  <<grid, scrollVars, tabVars, engine, mcards, gridHeight, mtimers, mpending, lastM, bootVars>>

\* the mouseenter listener of a card, lines 85-87; the pointer is over one
\* card at a time
MouseEnter(c) ==
  /\ c \in 1..Len(pcards)
  /\ hovered = 0
  /\ hovered' = c
  /\ pcards' = pickUpCard(pcards, c, isMobile)
  /\ lastP' = [op |-> "mouseenter", card |-> c, scattered |-> FALSE]
  /\ UNCHANGED <<innerWidth, isMobile, isTablet, resizeTimer, ptimers, focused, pileFrame>>

\* the mouseleave listener of a card, lines 90-92
MouseLeave(c) ==
  /\ c \in 1..Len(pcards)
  /\ hovered = c
  /\ hovered' = 0
  /\ pcards' = putDownCard(pcards, c)
  /\ lastP' = [op |-> "mouseleave", card |-> c, scattered |-> FALSE]
  /\ UNCHANGED <<innerWidth, isMobile, isTablet, resizeTimer, ptimers, focused, pileFrame>>

\* the focus listener of a card, lines 155-157; one element has the focus
Focus(c) ==
  /\ c \in 1..Len(pcards)
  /\ focused = 0
  /\ focused' = c
  /\ pcards' = pickUpCard(pcards, c, isMobile)
  /\ lastP' = [op |-> "focus", card |-> c, scattered |-> FALSE]
  /\ UNCHANGED <<innerWidth, isMobile, isTablet, resizeTimer, ptimers, hovered, pileFrame>>

\* the blur listener of a card, lines 159-161
Blur(c) ==
  /\ c \in 1..Len(pcards)
  /\ focused = c
  /\ focused' = 0
  /\ pcards' = putDownCard(pcards, c)
  /\ lastP' = [op |-> "blur", card |-> c, scattered |-> FALSE]
  /\ UNCHANGED <<innerWidth, isMobile, isTablet, resizeTimer, ptimers, hovered, pileFrame>>

\* the touchstart listener of a card, lines 95-104
TouchStart(c) ==
  /\ c \in 1..Len(pcards)
  /\ Cardinality(ptimers) < MaxTouchTimers
  /\ IF isMobile
     THEN /\ pcards' = pickUpCard(pcards, c, isMobile)
          /\ ptimers' = ptimers \cup {[card |-> c, due |-> AutoPutDownMs]}
     ELSE UNCHANGED <<pcards, ptimers>>
  /\ lastP' = [op |-> "touchstart", card |-> c, scattered |-> FALSE]
  /\ UNCHANGED <<innerWidth, isMobile, isTablet, resizeTimer, hovered, focused, pileFrame>>

\* the callback of the timer of touchstart, lines 101-103
AutoPutDown(t) ==
  /\ t \in ptimers
  /\ t.due = 0
  /\ ptimers' = ptimers \ {t}
  /\ pcards' = putDownCard(pcards, t.card)
  /\ lastP' = [op |-> "autoputdown", card |-> t.card, scattered |-> FALSE]
  /\ UNCHANGED <<innerWidth, isMobile, isTablet, resizeTimer, hovered, focused, pileFrame>>

\* the resize listener of the window, lines 176-178: the timer starts anew
PileResize(w) ==
  /\ Len(pcards) > 0
  /\ innerWidth' = w
  /\ resizeTimer' = PileDebounceMs
  /\ lastP' = [op |-> "resize", card |-> 0, scattered |-> FALSE]
  /\ UNCHANGED <<isMobile, isTablet, pcards, ptimers, hovered, focused, pileFrame>>

\* a callback that scatters whenever the width changed hands
ClassChanged_Always(wasMobile, wasTablet, mobile, tablet) == TRUE

\* wasMobile !== this.isMobile || wasTablet !== this.isTablet, lines 186-189
ClassChanged(wasMobile, wasTablet, mobile, tablet) ==
  wasMobile # mobile \/ wasTablet # tablet

\* the callback of the resize timer, lines 178-192
PileResized ==
  /\ resizeTimer = 0
  /\ resizeTimer' = -1
  /\ isMobile' = (innerWidth < MobileBelow)
  /\ isTablet' = (innerWidth >= MobileBelow /\ innerWidth < TabletBelow)
  /\ IF ClassChanged(isMobile, isTablet, isMobile', isTablet')
     THEN /\ \E draws \in [1..Len(pcards) -> PileDraws] :
               pcards' = scatterCards(pcards, isMobile', isTablet', draws)
          /\ lastP' = [op |-> "resized", card |-> 0, scattered |-> TRUE]
     ELSE /\ pcards' = pcards
          /\ lastP' = [op |-> "resized", card |-> 0, scattered |-> FALSE]
  /\ UNCHANGED <<innerWidth, ptimers, hovered, focused, pileFrame>>

\* half the delay of the put-down timer passes while no timer of the pile
\* is due
PileTick ==
  /\ resizeTimer # 0
  /\ \A t \in ptimers : t.due > 0
  /\ resizeTimer > 0 \/ ptimers # {}
  /\ resizeTimer' = IF resizeTimer > 0
                    THEN Max(<<0, resizeTimer - AutoPutDownMs \div 2>>)
                    ELSE resizeTimer
  /\ ptimers' = {[t EXCEPT !.due = Max(<<0, @ - AutoPutDownMs \div 2>>)] : t \in ptimers}
  /\ UNCHANGED <<innerWidth, isMobile, isTablet, pcards, hovered, focused, lastP, pileFrame>>

\* the constructor and init(), lines 7-36, on a pile of n cards
InitPile(w, n, draws) ==
  /\ innerWidth = w
  /\ isMobile = (w < MobileBelow)
  /\ isTablet = (w >= MobileBelow /\ w < TabletBelow)
  /\ pcards = scatterCards([k \in 1..n |-> PileCard], w < MobileBelow,
                           w >= MobileBelow /\ w < TabletBelow, draws)
  /\ resizeTimer = -1
  /\ ptimers = {}
  /\ hovered = 0
  /\ focused = 0
  /\ lastP = [op |-> "init", card |-> 0, scattered |-> TRUE]

\* a page with a pile: no feed button, no tabs, no masonry grid
\* (src/src/js/index.js:69-80)
InitPilePage ==
  /\ grid = <<>>
  /\ NoLoader
  /\ NoTabs
  /\ engine = [columns |-> <<0, 0>>, columnCount |-> 2, gap |-> 24, isLayouting |-> FALSE]
  /\ mcards = <<>>
  /\ gridHeight = -1
  /\ mtimers = {}
  /\ mpending = {}
  /\ lastM = [op |-> "init", passes |-> 0, stripped |-> FALSE, since |-> -1]
  /\ BootAside
  /\ \E w \in PileWidths, n \in PileSizes :
       \E draws \in [1..n -> PileDraws] : InitPile(w, n, draws)

NextPile ==
  \/ \E c \in 1..Len(pcards) : MouseEnter(c)
  \/ \E c \in 1..Len(pcards) : MouseLeave(c)
  \/ \E c \in 1..Len(pcards) : Focus(c)
  \/ \E c \in 1..Len(pcards) : Blur(c)
  \/ \E c \in 1..Len(pcards) : TouchStart(c)
  \/ \E t \in ptimers : AutoPutDown(t)
  \/ \E w \in PileWidths : PileResize(w)
  \/ PileResized
  \/ PileTick

SpecPile == InitPilePage /\ [][NextPile]_vars

\* C23: the mouseenter or focus handler of a card leaves it with rotation 0
\* and a z-index above that of every other card; the mouseleave or blur
\* handler leaves it with the rotation, the offsets and the z-index of its
\* dataset, which only scatterCards() writes, and leaves no card dimmed.
PickUpPutDown ==
  [][\A c \in 1..Len(pcards) :
       /\ (lastP'.op \in {"mouseenter", "focus"} /\ lastP'.card = c /\ pcards' # pcards)
            => /\ pcards'[c].rotation = 0
               /\ \A k \in 1..Len(pcards) \ {c} : pcards'[c].zIndex > pcards'[k].zIndex
       /\ (lastP'.op \in {"mouseleave", "blur"} /\ lastP'.card = c
             /\ lastP.op \in {"mouseenter", "focus"} /\ lastP.card = c)
            => /\ pcards'[c].rotation = pcards[c].originalRotation
               /\ pcards'[c].x = pcards[c].originalX
               /\ pcards'[c].y = pcards[c].originalY
               /\ pcards'[c].zIndex = pcards[c].originalZ
               /\ \A k \in 1..Len(pcards) : ~pcards'[k].dimmed]_vars

\* the device class of a width: mobile below 768, tablet 768..1023, desktop
\* from 1024
ClassOfWidth(w) ==
  IF w < 768 THEN "mobile" ELSE IF w <= 1023 THEN "tablet" ELSE "desktop"

Listener(of, event) == [of |-> of, event |-> event]

\* the listeners of bindEvents() and setupIntersectionObserver() on a grid
\* without cards
EngineListeners ==
  {Listener("engine", e) : e \in {"resize", "masonryUpdate", "load", "intersection"}}

\* postFeed: .article-loop || .post-feed || .masonry-grid
postFeed == dom.feed \/ dom.grid

\* new InfiniteScroll(): part_002 lines 281-352
NewInfiniteScroll(doc) ==
  /\ "loader" \notin booted
  /\ booted' = booted \cup {"loader"}
  /\ IF ~postFeed \/ ~dom.button
     THEN UNCHANGED <<scroll, btn, pagRead, last, listeners>>
     ELSE /\ scroll' = InitScroll(doc)
          /\ btn' = updateButtonState(InitScroll(doc), btn)
          /\ pagRead' = blockRead(pagRead, doc.pag)
          /\ last' = [last EXCEPT !.pag = doc.pag.valid]
          /\ listeners' = listeners \cup {Listener("loader", "click")}
  /\ UNCHANGED <<calls, fetchCount, grid, timers, isMasonryGrid, fetched, appended, tabVars,
                 masonryVars, pileVars, dom, thrown>>

\* new MasonryGrid(): masonry-grid.js lines 9-41
NewMasonryGrid ==
  /\ "engine" \notin booted
  /\ booted' = booted \cup {"engine"}
  /\ IF ~dom.grid
     THEN UNCHANGED <<engine, mpending, listeners>>
     ELSE /\ engine' = Constructor(innerWidth, <<>>).engine
          /\ mpending' = {"images", "load"}
          /\ listeners' = listeners \cup EngineListeners
  /\ UNCHANGED <<innerWidth, mcards, gridHeight, mtimers, lastM, grid, scrollVars, tabVars,
                 pileVars, dom, thrown>>

\* new CategoryTabs(): category-tabs.js lines 6-49.  storeInitialCards()
\* reads this.grid.querySelectorAll, a TypeError when the grid is null
NewCategoryTabs ==
  /\ "tabs" \notin booted
  /\ booted' = booted \cup {"tabs"}
  /\ IF ~dom.tabs
     THEN UNCHANGED <<initialCards, listeners, thrown>>
     ELSE IF ~dom.grid
     THEN /\ thrown' = thrown \cup {"tabs"}
          /\ UNCHANGED <<initialCards, listeners>>
     ELSE /\ initialCards' = grid
          /\ listeners' = listeners \cup {Listener("tabs", "click")}
          /\ UNCHANGED thrown
  /\ UNCHANGED <<activeFilter, postCache, tabCalls, apiCount, loadingIndicator, lastTab,
                 grid, scrollVars, masonryVars, pileVars, dom>>

\* a call of layoutMasonry() on the instance: masonry-grid.js lines 83-104.
\* Without a grid this.grid.offsetWidth is a TypeError, raised after
\* isLayouting was set and the columns were reset.
CallLayoutMasonry ==
  /\ "engine" \in booted
  /\ IF dom.grid
     THEN /\ CommitEngine(layoutMasonry(EngineWorld), "layout")
          /\ UNCHANGED thrown
     ELSE IF engine.isLayouting
     THEN UNCHANGED <<innerWidth, engine, mcards, gridHeight, mtimers, lastM, thrown>>
     ELSE /\ engine' = [engine EXCEPT !.isLayouting = TRUE,
                                      !.columns = Zeros(engine.columnCount)]
          /\ thrown' = thrown \cup {"layout"}
          /\ UNCHANGED <<innerWidth, mcards, gridHeight, mtimers, lastM>>
  /\ UNCHANGED <<mpending, grid, scrollVars, tabVars, pileVars, dom, listeners, booted>>

\* a document with any of the anchors and without cards, before the
\* constructors run
InitBootPage ==
  /\ dom \in [feed : BOOLEAN, button : BOOLEAN, grid : BOOLEAN, tabs : BOOLEAN]
  /\ listeners = {}
  /\ thrown = {}
  /\ booted = {}
  /\ grid = <<>>
  /\ NoLoader
  /\ NoTabs
  /\ EngineAside
  /\ NoPile

NextBoot ==
  \/ \E doc \in {d \in InitialDocs : d.cards = 0} : NewInfiniteScroll(doc)
  \/ NewMasonryGrid
  \/ NewCategoryTabs
  \/ CallLayoutMasonry
  \/ ImagesLoaded
  \/ WindowLoad

SpecBoot == InitBootPage /\ [][NextBoot]_vars

\* C25: a constructor that ran on a document without its anchors has
\* registered no listener and raised no exception: the loader without a
\* feed or without the button, the engine without the grid, the category
\* filter without the grid; and no call of layoutMasonry() without the grid
\* has raised one.
MissingAnchorsNoOp ==
  /\ ("loader" \in booted /\ (~postFeed \/ ~dom.button))
       => /\ \A l \in listeners : l.of # "loader"
          /\ "loader" \notin thrown
  /\ ("engine" \in booted /\ ~dom.grid)
       => /\ \A l \in listeners : l.of # "engine"
          /\ "engine" \notin thrown
  /\ ("tabs" \in booted /\ ~dom.grid)
       => /\ \A l \in listeners : l.of # "tabs"
          /\ "tabs" \notin thrown
  /\ ~dom.grid => "layout" \notin thrown

\* C26: every request the loader issues goes to the rel="next" link of the
\* document loaded last (the page's own document before any load), and is
\* recorded as coming from that document; a failure in between changes
\* neither.
NextLinkFollowed ==
  [][/\ \A c \in calls' \ calls :
          c.stage = "fetch" => (c.url = fetched.next /\ c.from = fetched.id)
     /\ last'.op = "failed" => fetched' = fetched /\ scroll'.nextDom = scroll.nextDom]_vars

\* C26: after one load the second request is on its way, to the link found
\* in the first response
SecondRequestFollowsFirstResponse ==
  /\ fetched = [id |-> 1, next |-> "/page/3/"]
  /\ \E c \in calls : c.req = 2 /\ c.stage = "fetch" /\ c.from = 1 /\ c.url = "/page/3/"

\* the responses followed for termination: cards under the first selector
\* or none, any link, the pagination block absent or not parseable
LiveDocs == {d \in Docs : d.pag.valid # "ok" /\ d.postFeed = 0 /\ d.masonry = 0}

\* await fetch() and await response.text() settle: the request rejects or a
\* response arrives
Response(c) ==
  \/ FetchFail(c)
  \/ \E doc \in LiveDocs :
       FetchEmpty(c, doc) \/ FetchAppendFeed(c, doc) \/ FetchAppendMasonry(c, doc)

NextLoaderLive ==
  \/ CallLoadMore
  \/ Click
  \/ \E c \in calls : Response(c)
  \/ \E c \in calls : ImagesSettled(c)
  \/ \E c \in calls : LayoutAndFinish(c)
  \/ Unwrap

\* the loader with its scheduling: every fetch settles, every image of
\* waitForImages() has loaded, failed or run into its 3000 ms timer, and
\* the 100 ms timer of appendPosts() fires
SpecLoaderLive ==
  /\ InitFeedPage
  /\ [][NextLoaderLive]_vars
  /\ WF_vars(\E c \in calls : Response(c))
  /\ WF_vars(\E c \in calls : ImagesSettled(c))
  /\ WF_vars(\E c \in calls : LayoutAndFinish(c))

\* C27: whenever the loader is loading, it is not loading at some later time.
LoadingEnds == scroll.isLoading ~> ~scroll.isLoading

\* C27: on a masonry grid a load went through the wait for the images and
\* the timer and has left the loading state
LoadingLeftAfterImages ==
  /\ isMasonryGrid
  /\ last.op = "loaded"
  /\ fetched.id = 1
  /\ ~scroll.isLoading
  /\ calls = {}

\* the step is a call of handleResize() from the debounce timer
HandleResizeStep ==
  /\ lastM'.op = "handleResize"
  /\ \E t \in mtimers : t.kind = "debounce" /\ t.due = 0 /\ t \notin mtimers'

\* C28: handleResize() is called only when DebounceMs have passed since the
\* last resize event, and once for the events before it: no resize event is
\* left unanswered after the call, and until the next event no call follows.
\* Once DebounceMs have passed since an event, the call is due.
ResizeDebounced ==
  [][/\ HandleResizeStep => (lastM.since = DebounceMs /\ lastM'.since = -1)
     /\ lastM'.since = DebounceMs
          => \E t \in mtimers' : t.kind = "debounce" /\ t.due = 0
     /\ lastM'.since = -1 => \A t \in mtimers' : t.kind # "debounce"]_vars

\* C28: the resize events that took a two-card grid to 767 px were answered
\* by a call of handleResize(), which found the column count changed
BurstHandledOnce ==
  /\ lastM.op = "handleResize"
  /\ lastM.since = -1
  /\ lastM.stripped
  /\ innerWidth = 767
  /\ Len(mcards) = 2

\* the height plus gap of the cards before the k-th that stand in column j
\* (columns counted from 0, as the left offsets say)
RECURSIVE AccBefore(_, _)
AccBefore(j, k) ==
  IF k = 1 THEN 0
  ELSE AccBefore(j, k - 1)
         + IF ColumnOf(mcards[k - 1]) = j THEN mcards[k - 1].height + engine.gap ELSE 0

\* C29: after a pass with more than one column every card stands in a column
\* that was the lowest when its turn came, the first of the lowest; its top
\* is what that column had accumulated, its left is the column index times
\* card width plus gap, and each accumulator is the sum of height plus gap
\* of its cards.
ShortestColumnPlacement ==
  (lastM.passes = 1 /\ engine.columnCount > 1)
    => /\ \A k \in 1..Len(mcards) :
            LET c == ColumnOf(mcards[k])
            IN /\ c \in 0..(engine.columnCount - 1)
               /\ mcards[k].width
                    = (innerWidth - engine.gap * (engine.columnCount - 1))
                        \div engine.columnCount
               /\ mcards[k].left = c * (mcards[k].width + engine.gap)
               /\ mcards[k].top = AccBefore(c, k)
               /\ \A j \in 0..(engine.columnCount - 1) :
                    /\ AccBefore(j, k) >= AccBefore(c, k)
                    /\ j < c => AccBefore(j, k) > AccBefore(c, k)
       /\ \A j \in 0..(engine.columnCount - 1) :
            engine.columns[j + 1] = AccBefore(j, Len(mcards) + 1)

\* C29: cards of 100, 100, 300 and 100 px were laid out in two columns: the
\* third card met a tie and went to the first column, the fourth went under
\* the second card
TieWentToFirstColumn ==
  /\ lastM.passes = 1
  /\ engine.columnCount = 2
  /\ Len(mcards) = 4
  /\ mcards[1].height = 100 /\ mcards[2].height = 100
  /\ mcards[3].height = 300 /\ mcards[4].height = 100
  /\ mcards[3].left = 0 /\ mcards[3].top = 124
  /\ mcards[4].left > 0 /\ mcards[4].top = 124

\* C30: no step of the loader lowers currentPage.
CurrentPageNeverDecreases ==
  [][scroll'.currentPage >= scroll.currentPage]_vars

\* C36: a step that runs a layout pass leaves the column count and the gap
\* at what the breakpoint gives for the width the pass ran at: one column
\* and 16 px up to 767 px, two columns and 24 px above.
PassUsesCurrentBreakpoint ==
  [][PassStep
       => /\ engine'.columnCount = IF innerWidth' <= 767 THEN 1 ELSE 2
          /\ engine'.gap = IF innerWidth' <= 767 THEN 16 ELSE 24]_vars

\* C37: after a layout pass over at least one card, all heights positive,
\* the height of the grid is positive and no card's bottom edge lies below
\* it (a card without an explicit top counts from 0).
GridHeightCoversCards ==
  (lastM.passes = 1 /\ Len(mcards) > 0 /\ \A k \in 1..Len(mcards) : mcards[k].height > 0)
    => /\ gridHeight > 0
       /\ \A k \in 1..Len(mcards) :
            gridHeight >= Max(<<0, mcards[k].top>>) + mcards[k].height

\* C38: after a pass with more than one column, a card and the next card of
\* its column stand one gap apart, top(b) = top(a) + height(a) + gap, and
\* the left offsets of any two cards differ by a multiple of card width plus
\* gap.
ColumnsDoNotOverlap ==
  (lastM.passes = 1 /\ engine.columnCount > 1)
    => \A a, b \in 1..Len(mcards) :
         /\ (/\ a < b
             /\ mcards[a].left = mcards[b].left
             /\ \A m \in (a + 1)..(b - 1) : mcards[m].left # mcards[a].left)
              => mcards[b].top = mcards[a].top + mcards[a].height + engine.gap
         /\ (mcards[b].left - mcards[a].left) % (mcards[a].width + engine.gap) = 0

\* C38: four cards of unequal heights were laid out in two columns, three of
\* them in one column
ThreeCardsInOneColumn ==
  /\ lastM.passes = 1
  /\ engine.columnCount = 2
  /\ Len(mcards) = 4
  /\ mcards[1].height = 450
  /\ mcards[2].left > 0 /\ mcards[3].left > 0 /\ mcards[4].left > 0
  /\ mcards[3].top = mcards[2].height + 24
  /\ mcards[4].top > mcards[3].top

\* C39: at most one card of the pile is active, and while a card is active
\* every other card is dimmed and lies below it.
OneActiveCardOnTop ==
  /\ Cardinality({k \in 1..Len(pcards) : pcards[k].active}) <= 1
  /\ \A c \in 1..Len(pcards) :
       pcards[c].active
         => \A k \in 1..Len(pcards) \ {c} :
              /\ pcards[k].dimmed
              /\ pcards[c].zIndex > pcards[k].zIndex

\* C33: a click on the tab of a category whose fetch has just failed issues
\* a new request for that category.
FailedCategoryCanBeRetried ==
  [][\A f \in Categories :
       (/\ lastTab.op = "response" /\ lastTab.failed /\ lastTab.served = "none"
        /\ lastTab.filter = f
        /\ lastTab'.op = "click" /\ lastTab'.filter = f)
         => /\ lastTab'.served = "fetch"
            /\ apiCount'[f] = apiCount[f] + 1]_vars

\* C34: a category response with posts is followed by a layout pass that
\* the handler or its image callback started, and resetMasonryLayout() has
\* not raised an exception.
PostsLaidOutWithoutError ==
  (lastTab.op = "response" /\ lastTab.served = "posts" /\ ~lastTab.failed)
    => /\ lastTab.layouts >= 1
       /\ ~lastTab.threw

(***************************************************************************)
(* The loader and the category filter on one grid: a page whose            *)
(* .masonry-grid is both the postFeed of InfiniteScroll (part_002 line     *)
(* 307) and the grid of CategoryTabs.  The handlers are those of           *)
(* SpecLoader and SpecTabs; they meet in the children of the grid.         *)
(***************************************************************************)
\* the documents the loader receives here: one card or none, any link, no
\* pagination block
SharedDocs == {d \in LiveDocs : d.pag.valid = "absent" /\ d.articleLoop <= 1}

\* the answers of the content API here: a failure, no post, or one post
SharedResponses == {r \in TabResponses : Len(r.posts) <= 1 /\ (r.json => r.ok)}

\* the page as loaded: one card, a link to the second page and no pagination
\* block in its own document
InitSharedPage ==
  /\ InitLoader
  /\ isMasonryGrid
  /\ pagRead = NothingRead
  /\ Len(grid) = 1
  /\ fetched.next = "/page/2/"
  /\ InitTabs
  /\ EngineAside
  /\ NoPile
  /\ BootAside

NextShared ==
  \/ CallLoadMore
  \/ Click
  \/ \E c \in calls : FetchFail(c)
  \/ \E c \in calls, doc \in SharedDocs : FetchEmpty(c, doc)
  \/ \E c \in calls, doc \in SharedDocs : FetchAppendMasonry(c, doc)
  \/ \E c \in calls : ImagesSettled(c)
  \/ \E c \in calls : LayoutAndFinish(c)
  \/ \E filter \in {"all"} \cup Categories : TabClick(filter)
  \/ \E c \in tabCalls, r \in SharedResponses : TabResponse(c, r)

SpecShared == InitSharedPage /\ [][NextShared]_vars

\* the cards of the grid that came from the server's pages
FeedCards == SelectSeq(grid, LAMBDA c : c.kind = "card" /\ c.category = "")

\* C31: while "all" is the active category and neither the loader nor the
\* category filter waits for a response, the grid holds the cards of the
\* page and of every page the loader has appended, in that order.
AllShowsEveryLoadedPage ==
  (activeFilter = "all" /\ calls = {} /\ tabCalls = {})
    => CardIds(FeedCards) = appended

\* C32: while the category filter waits for no response and a category
\* other than "all" is active, every child of the grid is a card built for
\* that category or its empty message.
GridShowsActiveCategory ==
  (tabCalls = {} /\ activeFilter # "all")
    => \A i \in 1..Len(grid) : grid[i].category = activeFilter

(***************************************************************************)
(* The loader and the layout engine on one grid: window.MasonryGrid is     *)
(* constructed over the cards of the page as rendered, and the loader      *)
(* calls its layoutMasonry() after it has appended a page.                 *)
(***************************************************************************)
\* the engine constructed over the cards the grid holds at page load, on a
\* desktop viewport
InitEngineOnGrid == InitEngine({1200}, {Equal(Len(grid), 300)})

InitAppendPage ==
  /\ InitLoader
  /\ isMasonryGrid
  /\ pagRead = NothingRead
  /\ fetched.next = "/page/2/"
  /\ NoTabs
  /\ InitEngineOnGrid
  /\ NoPile
  /\ BootAside

\* the 100 ms timer of appendPosts() fires: window.MasonryGrid.layoutMasonry()
\* runs its pass over this.cards, then the loader finishes
LayoutAndFinishOnGrid(c) ==
  /\ LayoutAndFinishStep(c)
  /\ CommitEngine(layoutMasonry(EngineWorld), "append")
  /\ UNCHANGED mpending

NextAppend ==
  \/ CallLoadMore
  \/ Click
  \/ \E c \in calls : FetchFail(c)
  \/ \E c \in calls, doc \in SharedDocs : FetchEmpty(c, doc)
  \/ \E c \in calls, doc \in SharedDocs : FetchAppendMasonry(c, doc)
  \/ \E c \in calls : ImagesSettled(c)
  \/ \E c \in calls : LayoutAndFinishOnGrid(c)
  \/ ImagesLoaded
  \/ WindowLoad
  \/ \E t \in mtimers : TimerFires(t)
  \/ Tick

SpecAppend == InitAppendPage /\ [][NextAppend]_vars

\* a step in which the loader's call of layoutMasonry() runs a pass
AppendPassStep ==
  /\ lastM'.op = "append"
  /\ lastM'.passes = 1
  /\ \E c \in calls : c.stage = "settle" /\ c \notin calls'

\* C35: every layout pass works on exactly the cards the grid holds when it
\* runs: the cards the engine iterates over, which are the cards of the page
\* as rendered that its constructor collected, are the cards of the grid, one
\* for one and in the same order.
EveryPassCoversGrid ==
  [][(PassStep \/ AppendPassStep)
       => [i \in 1..Len(mcards') |-> CardId(Card(0, i, 0))] = CardIds(grid')]_vars

====
